---- MODULE Spec2Model ----
(***************************************************************************)
(* Model of scrapper.py: the price text parser (_extract_price), the price *)
(* listing extraction (_extract_prices), the outlier filter and the range  *)
(* aggregation of Phone, and the batch run of main().                      *)
(*                                                                         *)
(* Text is a sequence of one-character strings.  A float is an exact       *)
(* decimal, held as an integer count of 10^-FloatDigits; a quotient of two *)
(* floats (the mean, the deviation threshold) is held as a fraction.       *)
(* Binary rounding of floats is not modelled.                              *)
(***************************************************************************)
EXTENDS Integers, Sequences, FiniteSets, TLC

VARIABLES
    text,          \* SpecParser: the argument of _extract_price
    parsed,        \* SpecParser: what the call produced
    self_prices,   \* SpecOutliers: Phone.prices
    deviation,     \* SpecOutliers: the argument of remove_outliers
    outliers,      \* SpecOutliers: what remove_outliers(deviation) returned
    range,         \* SpecOutliers: what cheapest / most_expensive returned
    file,          \* Spec: the text of the input file
    pc,            \* Spec: position of main()
    infos,         \* Spec: main.infos
    i,             \* Spec: index in infos of the phone being looked up
    fetches,       \* Spec: number of requests.get calls started
    price_tags,    \* Spec: _extract_prices.price_tags
    k,             \* Spec: index in price_tags of the loop variable pt
    prices,        \* Spec: _extract_prices.prices
    last,          \* Spec: _extract_prices.last, an index in prices, 0 for None
    patched,       \* Spec: number of assignments made to last.shipping
    phones,        \* Spec: main.phones, as far as the comprehension has come
    out,           \* Spec: the lines written to the output file
    err,           \* Spec: the exception that ended the run
    seen           \* Spec: number of price tags the pages fetched so far held

parserVars == <<text, parsed>>
outlierVars == <<self_prices, deviation, outliers, range>>
runVars == <<file, pc, infos, i, fetches, price_tags, k, prices, last, patched,
             phones, out, err, seen>>
vars == <<parserVars, outlierVars, runVars>>

----------------------------------------------------------------------------
(* Bounds *)

MaxLen == 4        \* longest text handed to _extract_price
MaxPrices == 3     \* longest price list handed to remove_outliers
MaxRows == 2       \* most data rows of the input file
MaxTags == 3       \* most price tags of all pages of one run together

----------------------------------------------------------------------------
(* Text *)

Digits == {"0", "1"}
Chars == Digits \cup {".", ",", "€", "+"}

Strings(n) == UNION {[1..m -> Chars] : m \in 0..n}

IsDigit(c) == c \in Digits

FloatDigits == MaxLen

RECURSIVE Pow10(_)
Pow10(n) == IF n = 0 THEN 1 ELSE 10 * Pow10(n - 1)

DigitValue(c) == IF c = "0" THEN 0 ELSE 1

RECURSIVE ToNat(_)
ToNat(ds) ==
    IF ds = <<>> THEN 0
    ELSE 10 * ToNat(SubSeq(ds, 1, Len(ds) - 1)) + DigitValue(ds[Len(ds)])

\* float("%s.%s" % (number, decimal))
float(number, decimal) ==
    ToNat(number) * Pow10(FloatDigits)
        + ToNat(decimal) * Pow10(FloatDigits - Len(decimal))

----------------------------------------------------------------------------
(* _extract_price *)

\* \d+ from position p, a digit: the position of the last digit of the run
RECURSIVE DigitRun(_, _)
DigitRun(s, p) ==
    IF p < Len(s) /\ IsDigit(s[p + 1]) THEN DigitRun(s, p + 1) ELSE p

\* (?:\.\d+)* after position p: the position of the last character consumed
RECURSIVE DotGroups(_, _)
DotGroups(s, p) ==
    IF p + 2 <= Len(s) /\ s[p + 1] = "." /\ IsDigit(s[p + 2])
    THEN DotGroups(s, DigitRun(s, p + 2))
    ELSE p

\* (?:,(\d+))? after position p
HasDecimal(s, p) == p + 2 <= Len(s) /\ s[p + 1] = "," /\ IsDigit(s[p + 2])

\* re.findall(r"(\d+(?:\.\d+)*)(?:,(\d+))?", s) from position p on: the
\* non-overlapping matches from left to right, each with its two groups
RECURSIVE findall(_, _)
findall(s, p) ==
    IF p > Len(s) THEN <<>>
    ELSE IF ~IsDigit(s[p]) THEN findall(s, p + 1)
    ELSE LET q == DotGroups(s, DigitRun(s, p))
             e == IF HasDecimal(s, q) THEN DigitRun(s, q + 2) ELSE q
         IN  <<<<SubSeq(s, p, q),
                 IF HasDecimal(s, q) THEN SubSeq(s, q + 2, e) ELSE <<>>>>>>
                 \o findall(s, e + 1)

\* "".join(re.findall(r"\d+", g))
JoinDigits(g) == SelectSeq(g, IsDigit)

\* match[-1]
LastMatch(match) == match[Len(match)]

\* match[0]
FirstMatch(match) == match[1]

\* return 0 where the code raises
NoMatchZero(s) == [kind |-> "return", value |-> 0]

\* raise Exception("no price found in '%s'" % (text,))
NoMatch(s) == [kind |-> "raise", type |-> "Exception",
               msg |-> "no price found in", text |-> s]

_extract_price(s) ==
    LET match == findall(s, 1)
    IN  IF match = <<>> THEN NoMatch(s)
        ELSE LET m == FirstMatch(match)
                 number == JoinDigits(m[1])
                 decimal == IF m[2] # <<>> THEN m[2] ELSE <<"0">>
             IN  [kind |-> "return", value |-> float(number, decimal)]

----------------------------------------------------------------------------
(* SpecParser: _extract_price on every text of at most MaxLen characters *)

Idle == [kind |-> "idle"]

ParserInit ==
    /\ text \in Strings(MaxLen)
    /\ parsed = Idle

ParseReturn ==
    /\ parsed = Idle
    /\ _extract_price(text).kind = "return"
    /\ parsed' = _extract_price(text)
    /\ UNCHANGED text

ParseRaise ==
    /\ parsed = Idle
    /\ _extract_price(text).kind = "raise"
    /\ parsed' = _extract_price(text)
    /\ UNCHANGED text

----------------------------------------------------------------------------
(* Price *)

\* Price(base_price, shipping)
Price(base_price, shipping) ==
    [base_price |-> base_price, shipping |-> shipping]

\* Price.total
total(p) == p.base_price + p.shipping

\* [p.total() for p in xs]
Totals(xs) == [j \in 1..Len(xs) |-> total(xs[j])]

RECURSIVE sum(_)
sum(ts) == IF ts = <<>> THEN 0 ELSE ts[1] + sum(Tail(ts))

min(ts) == CHOOSE t \in {ts[j] : j \in 1..Len(ts)} :
               \A j \in 1..Len(ts) : t <= ts[j]

max(ts) == CHOOSE t \in {ts[j] : j \in 1..Len(ts)} :
               \A j \in 1..Len(ts) : t >= ts[j]

----------------------------------------------------------------------------
(* Fractions: the float quotients of remove_outliers, denominators > 0 *)

Frac(n, d) == [num |-> n, den |-> d]

FracMinus(a, t) == Frac(a.num - t * a.den, a.den)

abs(a) == Frac(IF a.num < 0 THEN 0 - a.num ELSE a.num, a.den)

FracTimes(a, b) == Frac(a.num * b.num, a.den * b.den)

FracLess(a, b) == a.num * b.den < b.num * a.den

\* a <= b
FracLessEq(a, b) == a.num * b.den <= b.num * a.den

----------------------------------------------------------------------------
(* Phone *)

\* the default of the parameter deviation
DefaultDeviation == Frac(1, 2)

\* the sum, not divided by len(self.prices)
MeanUndivided(ps) == Frac(sum(Totals(ps)), 1)

\* avg = sum([p.total() for p in self.prices]) / len(self.prices)
Mean(ps) == Frac(sum(Totals(ps)), Len(ps))

\* abs(avg - p.total()) <= deviation * avg
WithinOrEqual(avg, p, dev) ==
    FracLessEq(abs(FracMinus(avg, total(p))), FracTimes(dev, avg))

\* abs(avg - p.total()) < deviation * avg
Within(avg, p, dev) ==
    FracLess(abs(FracMinus(avg, total(p))), FracTimes(dev, avg))

remove_outliers(ps, dev) ==
    IF Len(ps) = 0 THEN ps
    ELSE LET avg == Mean(ps)
         IN  SelectSeq(ps, LAMBDA p : Within(avg, p, dev))

\* f(ts), f being one of the builtins min and max
call(f, ts) == IF f = "min" THEN min(ts) ELSE max(ts)

_fold(xs, f, default) ==
    IF Len(xs) = 0 THEN default ELSE call(f, Totals(xs))

\* cheapest with normalised False
CheapestRaw(ps) == _fold(ps, "min", 0)

\* the property cheapest; normalised is always True
cheapest(ps) == _fold(remove_outliers(ps, DefaultDeviation), "min", 0)

\* the property most_expensive; normalised is always True
most_expensive(ps) == _fold(remove_outliers(ps, DefaultDeviation), "max", 0)

----------------------------------------------------------------------------
(* SpecOutliers: remove_outliers, cheapest and most_expensive on every     *)
(* price list of at most MaxPrices entries                                 *)

BasePrices == {0, 1, 3}
Shippings == {0, 1}
PriceSet == {Price(b, s) : b \in BasePrices, s \in Shippings}
PriceLists(n) == UNION {[1..m -> PriceSet] : m \in 0..n}
Deviations == {Frac(0, 1), Frac(1, 4), Frac(1, 2), Frac(1, 1), Frac(2, 1)}

Returned(v) == [kind |-> "return", value |-> v]

OutlierInit ==
    /\ self_prices \in PriceLists(MaxPrices)
    /\ deviation \in Deviations
    /\ outliers = Idle
    /\ range = [cheapest |-> Idle, most_expensive |-> Idle]

RemoveOutliers ==
    /\ outliers = Idle
    /\ outliers' = Returned(remove_outliers(self_prices, deviation))
    /\ UNCHANGED <<self_prices, deviation, range>>

Cheapest ==
    /\ range.cheapest = Idle
    /\ range' = [range EXCEPT !.cheapest = Returned(cheapest(self_prices))]
    /\ UNCHANGED <<self_prices, deviation, outliers>>

MostExpensive ==
    /\ range.most_expensive = Idle
    /\ range' = [range EXCEPT
                    !.most_expensive = Returned(most_expensive(self_prices))]
    /\ UNCHANGED <<self_prices, deviation, outliers>>

----------------------------------------------------------------------------
(* Files *)

\* the field names of the namedtuple PhoneInfo, in order
FieldNames == <<"manufacturer", "model_name", "model_code", "ram",
                "form_factor", "soc", "screen_sizes", "screen_densities",
                "ABIs", "android_sdk_versions", "opengl_es_versions">>

NumFields == Len(FieldNames)

\* the text with its header line left in
KeepHeader(s) == s

\* the text left after fh.readline(): what follows the first newline
readline(s) ==
    IF \E p \in 1..Len(s) : s[p] = "\n"
    THEN LET p == CHOOSE q \in 1..Len(s) :
                      s[q] = "\n" /\ \A r \in 1..(q - 1) : s[r] # "\n"
         IN  SubSeq(s, p + 1, Len(s))
    ELSE <<>>

\* str.split(sep)
RECURSIVE split(_, _)
split(s, sep) ==
    IF \E p \in 1..Len(s) : s[p] = sep
    THEN LET p == CHOOSE q \in 1..Len(s) :
                      s[q] = sep /\ \A r \in 1..(q - 1) : s[r] # sep
         IN  <<SubSeq(s, 1, p - 1)>> \o split(SubSeq(s, p + 1, Len(s)), sep)
    ELSE <<s>>

\* PhoneInfo(*args), args of the right number
PhoneInfo(args) ==
    [f \in {FieldNames[j] : j \in 1..NumFields} |->
        args[CHOOSE j \in 1..NumFields : FieldNames[j] = f]]

\* PhoneInfo(*args) raises TypeError for any other number of arguments
TypeError == [kind |-> "raise", type |-> "TypeError"]

read_infos(f) ==
    LET lines == split(readline(f), "\n")
        args == [j \in 1..Len(lines) |-> split(lines[j], ",")]
    IN  IF \E j \in 1..Len(lines) : Len(args[j]) # NumFields
        THEN TypeError
        ELSE [kind |-> "return",
              value |-> [j \in 1..Len(lines) |-> PhoneInfo(args[j])]]

\* Phone(info, prices)
Phone(info, ps) == [info |-> info, prices |-> ps]

\* "%s%s%s%s%s\n" % (p.info.model_name, separator, p.cheapest, separator,
\*                   p.most_expensive)
Line(p, separator) ==
    <<p.info.model_name, separator, cheapest(p.prices), separator,
      most_expensive(p.prices), "\n">>

----------------------------------------------------------------------------
(* Spec: the run of main() on every input file of at most MaxRows data     *)
(* rows, the pages fetched holding at most MaxTags price tags together     *)

Names == {<<"A">>, <<"B">>}
FieldCounts == {NumFields - 1, NumFields, NumFields + 1}

\* a data row of n comma-separated fields, the second being name
RECURSIVE Row(_, _)
Row(n, name) ==
    IF n = 1 THEN <<"x">>
    ELSE Row(n - 1, name) \o <<",">> \o (IF n = 2 THEN name ELSE <<"x">>)

RowSet == {Row(n, name) : n \in FieldCounts, name \in Names}

RECURSIVE JoinLines(_)
JoinLines(rows) ==
    IF rows = <<>> THEN <<>>
    ELSE IF Len(rows) = 1 THEN rows[1]
    ELSE rows[1] \o <<"\n">> \o JoinLines(Tail(rows))

Header == <<"h">>

\* a header line, the data rows, and a newline after the last row or none
FileOf(rows, end) == Header \o <<"\n">> \o JoinLines(rows) \o end

Files == {FileOf(rows, end) :
              rows \in UNION {[1..n -> RowSet] : n \in 0..MaxRows},
              end \in {<<>>, <<"\n">>}}

\* the text nodes soup.body.findAll(text=re.compile(r"€")) may return
FragSet == {<<"1", "€">>, <<"0", ",", "1", "€">>, <<"+", "1", "€">>,
            <<"+", "1", "1", "€">>, <<"€">>, <<"+", "€">>}

TagLists(n) == UNION {[1..m -> FragSet] : m \in 0..n}

\* pt.startswith("+")
startswith(pt, c) == Len(pt) >= 1 /\ pt[1] = c

NoError == [kind |-> "none"]
ConnectionError == [kind |-> "raise", type |-> "ConnectionError"]
AttributeError == [kind |-> "raise", type |-> "AttributeError"]

RunInit ==
    /\ file \in Files
    /\ pc = "read_infos"
    /\ infos = <<>>
    /\ i = 0
    /\ fetches = 0
    /\ price_tags = <<>>
    /\ k = 0
    /\ prices = <<>>
    /\ last = 0
    /\ patched = 0
    /\ phones = <<>>
    /\ out = <<>>
    /\ err = NoError
    /\ seen = 0

\* main: infos = read_infos(...)
ReadInfos ==
    /\ pc = "read_infos"
    /\ read_infos(file).kind = "return"
    /\ infos' = read_infos(file).value
    /\ i' = 1
    /\ pc' = "lookup_price"
    /\ UNCHANGED <<file, fetches, price_tags, k, prices, last, patched,
                   phones, out, err, seen>>

ReadInfosRaise ==
    /\ pc = "read_infos"
    /\ read_infos(file).kind = "raise"
    /\ err' = read_infos(file)
    /\ pc' = "error"
    /\ UNCHANGED <<file, infos, i, fetches, price_tags, k, prices, last,
                   patched, phones, out, seen>>

\* lookup_price: requests.get returns, the page is parsed, _extract_prices
\* finds the price tags and sets out on its loop
Fetch ==
    /\ pc = "lookup_price"
    /\ fetches' = fetches + 1
    /\ \E tags \in TagLists(MaxTags - seen) :
           /\ price_tags' = tags
           /\ seen' = seen + Len(tags)
    /\ k' = 1
    /\ prices' = <<>>
    /\ last' = 0
    /\ patched' = 0
    /\ pc' = "_extract_prices"
    /\ UNCHANGED <<file, infos, i, phones, out, err>>

\* requests.get raises and main goes on with the next phone
FetchRaiseContinue ==
    /\ pc = "lookup_price"
    /\ fetches' = fetches + 1
    /\ err' = ConnectionError
    /\ IF i < Len(infos)
       THEN i' = i + 1 /\ pc' = "lookup_price"
       ELSE i' = i /\ pc' = "write_prices"
    /\ UNCHANGED <<file, infos, price_tags, k, prices, last, patched,
                   phones, out, seen>>

\* lookup_price: requests.get raises
FetchRaise ==
    /\ pc = "lookup_price"
    /\ fetches' = fetches + 1
    /\ err' = ConnectionError
    /\ pc' = "error"
    /\ UNCHANGED <<file, infos, i, price_tags, k, prices, last, patched,
                   phones, out, seen>>

\* prices[0].shipping = self._extract_price(pt)
ShippingFirst ==
    /\ pc = "_extract_prices"
    /\ k <= Len(price_tags)
    /\ startswith(price_tags[k], "+")
    /\ _extract_price(price_tags[k]).kind = "return"
    /\ last # 0
    /\ prices' = [prices EXCEPT
                      ![1].shipping = _extract_price(price_tags[k]).value]
    /\ patched' = patched + 1
    /\ k' = k + 1
    /\ UNCHANGED <<file, pc, infos, i, fetches, price_tags, last, phones,
                   out, err, seen>>

\* last.shipping += self._extract_price(pt)
ShippingAdds ==
    /\ pc = "_extract_prices"
    /\ k <= Len(price_tags)
    /\ startswith(price_tags[k], "+")
    /\ _extract_price(price_tags[k]).kind = "return"
    /\ last # 0
    /\ prices' = [prices EXCEPT
                      ![last].shipping =
                          @ + _extract_price(price_tags[k]).value]
    /\ patched' = patched + 1
    /\ k' = k + 1
    /\ UNCHANGED <<file, pc, infos, i, fetches, price_tags, last, phones,
                   out, err, seen>>

\* _extract_prices: last.shipping = self._extract_price(pt)
Shipping ==
    /\ pc = "_extract_prices"
    /\ k <= Len(price_tags)
    /\ startswith(price_tags[k], "+")
    /\ _extract_price(price_tags[k]).kind = "return"
    /\ last # 0
    /\ prices' = [prices EXCEPT
                      ![last].shipping = _extract_price(price_tags[k]).value]
    /\ patched' = patched + 1
    /\ k' = k + 1
    /\ UNCHANGED <<file, pc, infos, i, fetches, price_tags, last, phones,
                   out, err, seen>>

\* _extract_prices: last.shipping = ... with last None
ShippingNone ==
    /\ pc = "_extract_prices"
    /\ k <= Len(price_tags)
    /\ startswith(price_tags[k], "+")
    /\ _extract_price(price_tags[k]).kind = "return"
    /\ last = 0
    /\ err' = AttributeError
    /\ pc' = "error"
    /\ UNCHANGED <<file, infos, i, fetches, price_tags, k, prices, last,
                   patched, phones, out, seen>>

\* _extract_prices: last = Price(base_price=...); prices.append(last)
BasePrice ==
    /\ pc = "_extract_prices"
    /\ k <= Len(price_tags)
    /\ ~startswith(price_tags[k], "+")
    /\ _extract_price(price_tags[k]).kind = "return"
    /\ prices' = Append(prices, Price(_extract_price(price_tags[k]).value, 0))
    /\ last' = Len(prices) + 1
    /\ patched' = 0
    /\ k' = k + 1
    /\ UNCHANGED <<file, pc, infos, i, fetches, price_tags, phones, out, err,
                   seen>>

\* _extract_prices: self._extract_price(pt) raises, on either branch
ExtractRaise ==
    /\ pc = "_extract_prices"
    /\ k <= Len(price_tags)
    /\ _extract_price(price_tags[k]).kind = "raise"
    /\ err' = _extract_price(price_tags[k])
    /\ pc' = "error"
    /\ UNCHANGED <<file, infos, i, fetches, price_tags, k, prices, last,
                   patched, phones, out, seen>>

\* _extract_prices returns; lookup_price returns Phone(info, prices); main
\* goes on to the next phone, or to write_prices after the last
Return ==
    /\ pc = "_extract_prices"
    /\ k > Len(price_tags)
    /\ phones' = Append(phones, Phone(infos[i], prices))
    /\ IF i < Len(infos)
       THEN i' = i + 1 /\ pc' = "lookup_price"
       ELSE i' = i /\ pc' = "write_prices"
    /\ UNCHANGED <<file, infos, fetches, price_tags, k, prices, last, patched,
                   out, err, seen>>

\* write_prices: one fh.write
WriteLine ==
    /\ pc = "write_prices"
    /\ Len(out) < Len(phones)
    /\ out' = Append(out, Line(phones[Len(out) + 1], ","))
    /\ UNCHANGED <<file, pc, infos, i, fetches, price_tags, k, prices, last,
                   patched, phones, err, seen>>

\* write_prices returns, and main with it
WriteDone ==
    /\ pc = "write_prices"
    /\ Len(out) = Len(phones)
    /\ pc' = "done"
    /\ UNCHANGED <<file, infos, i, fetches, price_tags, k, prices, last,
                   patched, phones, out, err, seen>>

----------------------------------------------------------------------------
(* Specifications *)

Unused == "unused"

Init ==
    /\ RunInit
    /\ text = Unused /\ parsed = Unused
    /\ self_prices = Unused /\ deviation = Unused
    /\ outliers = Unused /\ range = Unused

Next ==
    \/ (ReadInfos /\ UNCHANGED <<parserVars, outlierVars>>)
    \/ (ReadInfosRaise /\ UNCHANGED <<parserVars, outlierVars>>)
    \/ (Fetch /\ UNCHANGED <<parserVars, outlierVars>>)
    \/ (FetchRaise /\ UNCHANGED <<parserVars, outlierVars>>)
    \/ (Shipping /\ UNCHANGED <<parserVars, outlierVars>>)
    \/ (ShippingNone /\ UNCHANGED <<parserVars, outlierVars>>)
    \/ (BasePrice /\ UNCHANGED <<parserVars, outlierVars>>)
    \/ (ExtractRaise /\ UNCHANGED <<parserVars, outlierVars>>)
    \/ (Return /\ UNCHANGED <<parserVars, outlierVars>>)
    \/ (WriteLine /\ UNCHANGED <<parserVars, outlierVars>>)
    \/ (WriteDone /\ UNCHANGED <<parserVars, outlierVars>>)

Spec == Init /\ [][Next]_vars

RunUnused ==
    /\ file = Unused /\ pc = Unused /\ infos = Unused /\ i = Unused
    /\ fetches = Unused /\ price_tags = Unused /\ k = Unused
    /\ prices = Unused /\ last = Unused /\ patched = Unused
    /\ phones = Unused /\ out = Unused /\ err = Unused /\ seen = Unused

InitParser ==
    /\ ParserInit
    /\ self_prices = Unused /\ deviation = Unused
    /\ outliers = Unused /\ range = Unused
    /\ RunUnused

NextParser ==
    \/ (ParseReturn /\ UNCHANGED <<outlierVars, runVars>>)
    \/ (ParseRaise /\ UNCHANGED <<outlierVars, runVars>>)

SpecParser == InitParser /\ [][NextParser]_vars

InitOutliers ==
    /\ OutlierInit
    /\ text = Unused /\ parsed = Unused
    /\ RunUnused

NextOutliers ==
    \/ (RemoveOutliers /\ UNCHANGED <<parserVars, runVars>>)
    \/ (Cheapest /\ UNCHANGED <<parserVars, runVars>>)
    \/ (MostExpensive /\ UNCHANGED <<parserVars, runVars>>)

SpecOutliers == InitOutliers /\ [][NextOutliers]_vars

----------------------------------------------------------------------------
(* Claims about remove_outliers, cheapest and most_expensive, under        *)
(* SpecOutliers                                                            *)

Dist(a, b) == IF a < b THEN b - a ELSE a - b

\* the indices j of ps with |mean - total(ps[j])| < dev * mean, the mean
\* being sum/len of all of ps: both sides multiplied by len * dev.den
Kept(ps, dev) ==
    {j \in 1..Len(ps) :
        dev.den * Dist(sum(Totals(ps)), Len(ps) * total(ps[j]))
            < dev.num * sum(Totals(ps))}

\* the m-th smallest element of the set K of numbers
Nth(K, m) == CHOOSE j \in K : Cardinality({x \in K : x <= j}) = m

\* the elements of ps at the indices K, in their order in ps
Picks(ps, K) == [m \in 1..Cardinality(K) |-> ps[Nth(K, m)]]

AllEqual(ps) == \A a, b \in 1..Len(ps) : total(ps[a]) = total(ps[b])

\* C4: remove_outliers returns exactly the elements p, in their original
\* order, with |mean - total(p)| strictly less than threshold * mean, the
\* mean taken once over the whole unfiltered list; an empty list is
\* returned as it is.
C4_RemoveOutliersContract ==
    outliers.kind = "return" =>
        outliers.value = Picks(self_prices, Kept(self_prices, deviation))

\* C4 witness: remove_outliers has removed an element whose deviation
\* equals threshold * mean, and a second pass over its result would
\* remove more.
C4_Witness ==
    /\ outliers.kind = "return"
    /\ deviation.num > 0
    /\ \E j \in 1..Len(self_prices) :
           /\ sum(Totals(self_prices)) > 0
           /\ deviation.den * Dist(sum(Totals(self_prices)),
                                   Len(self_prices) * total(self_prices[j]))
                  = deviation.num * sum(Totals(self_prices))
           /\ \A m \in 1..Len(outliers.value) :
                  outliers.value[m] # self_prices[j]
    /\ Kept(outliers.value, deviation) # 1..Len(outliers.value)

\* C3 as stated: a non-empty list whose totals are all equal is returned
\* unchanged for every threshold > 0, also when every total is 0.
C3_ZeroVarianceUnchanged ==
    (/\ outliers.kind = "return"
     /\ self_prices # <<>>
     /\ AllEqual(self_prices)
     /\ deviation.num > 0)
        => outliers.value = self_prices

\* C3 amended: a non-empty list whose totals are all equal and greater
\* than 0 is returned unchanged for every threshold > 0.
C3_PositiveZeroVarianceUnchanged ==
    (/\ outliers.kind = "return"
     /\ self_prices # <<>>
     /\ AllEqual(self_prices)
     /\ total(self_prices[1]) > 0
     /\ deviation.num > 0)
        => outliers.value = self_prices

\* C3 witness: remove_outliers has returned for a list of several equal
\* totals greater than 0 and a threshold below 1.
C3_Witness ==
    /\ outliers.kind = "return"
    /\ Len(self_prices) >= 2
    /\ AllEqual(self_prices)
    /\ total(self_prices[1]) > 0
    /\ deviation.num > 0 /\ deviation.num < deviation.den
    /\ outliers.value = self_prices

Filtered == Picks(self_prices, Kept(self_prices, DefaultDeviation))

IsLeast(v, ps) ==
    /\ \E j \in 1..Len(ps) : v = total(ps[j])
    /\ \A j \in 1..Len(ps) : v <= total(ps[j])

IsGreatest(v, ps) ==
    /\ \E j \in 1..Len(ps) : v = total(ps[j])
    /\ \A j \in 1..Len(ps) : v >= total(ps[j])

C8_Range ==
    /\ range.cheapest.kind = "return" =>
           IF Filtered = <<>> THEN range.cheapest.value = 0
           ELSE IsLeast(range.cheapest.value, Filtered)
    /\ range.most_expensive.kind = "return" =>
           IF Filtered = <<>> THEN range.most_expensive.value = 0
           ELSE IsGreatest(range.most_expensive.value, Filtered)
    /\ (range.cheapest.kind = "return"
            /\ range.most_expensive.kind = "return") =>
           range.cheapest.value <= range.most_expensive.value

\* C8: cheapest is the least and most_expensive the greatest total of the
\* list filtered with the default threshold, both 0 when that list is
\* empty, so cheapest <= most_expensive; and no step changes Phone.prices.
C8_RangeOfFiltered ==
    /\ []C8_Range
    /\ [][self_prices' = self_prices]_vars

\* C8 witness: both have returned 0 for a non-empty price list with a
\* total above 0, all of whose entries are filtered out.
C8_Witness ==
    /\ range.cheapest = Returned(0)
    /\ range.most_expensive = Returned(0)
    /\ self_prices # <<>>
    /\ sum(Totals(self_prices)) > 0
    /\ Filtered = <<>>

----------------------------------------------------------------------------
(* Claims about _extract_price, under SpecParser *)

HasDigit(s) == \E p \in 1..Len(s) : IsDigit(s[p])

FirstDigit(s) ==
    CHOOSE p \in 1..Len(s) :
        IsDigit(s[p]) /\ \A r \in 1..(p - 1) : ~IsDigit(s[r])

\* digit groups joined by single "."
IsGrouped(g) ==
    /\ g # <<>>
    /\ IsDigit(g[1]) /\ IsDigit(g[Len(g)])
    /\ \A j \in 1..Len(g) : IsDigit(g[j]) \/ g[j] = "."
    /\ \A j \in 1..(Len(g) - 1) : ~(g[j] = "." /\ g[j + 1] = ".")

\* the end of the longest run of digit groups that starts at FirstDigit(s)
IntEnd(s) ==
    CHOOSE q \in FirstDigit(s)..Len(s) :
        /\ IsGrouped(SubSeq(s, FirstDigit(s), q))
        /\ \A r \in (q + 1)..Len(s) : ~IsGrouped(SubSeq(s, FirstDigit(s), r))

\* the ends of the digit runs that start right after a "," at IntEnd(s) + 1
FracEnds(s) ==
    {e \in (IntEnd(s) + 2)..Len(s) :
        /\ s[IntEnd(s) + 1] = ","
        /\ \A r \in (IntEnd(s) + 2)..e : IsDigit(s[r])}

FracEnd(s) == CHOOSE e \in FracEnds(s) : \A f \in FracEnds(s) : f <= e

\* the positions of s from a to b that hold a digit
DigitsIn(s, a, b) == {p \in a..b : IsDigit(s[p])}

\* the sum of the second components of a set of pairs
RECURSIVE SumOf(_)
SumOf(T) ==
    IF T = {} THEN 0
    ELSE LET t == CHOOSE u \in T : TRUE IN t[2] + SumOf(T \ {t})

\* the number the first match of s denotes, in units of 10^-FloatDigits:
\* <integer part>.<fractional part>, the fractional part 0 when none
PriceOf(s) ==
    LET a == FirstDigit(s)
        q == IntEnd(s)
        ints == DigitsIn(s, a, q)
        fracs == IF FracEnds(s) = {} THEN {} ELSE (q + 2)..FracEnd(s)
    IN  SumOf({<<p, DigitValue(s[p]) * Pow10(FloatDigits
                        + Cardinality({r \in ints : r > p}))>> : p \in ints})
        + SumOf({<<p, DigitValue(s[p]) * Pow10(FloatDigits - (p - (q + 1)))>> :
                    p \in fracs})

\* C6: for a text with a digit, _extract_price returns the value of the
\* leftmost match only: the first run of digit groups joined by ".", the
\* "." removed, as the integer part, and the digits after a directly
\* following "," as the fractional part, 0 when there are none.
C6_FirstMatchValue ==
    (parsed # Idle /\ HasDigit(text)) =>
        parsed = [kind |-> "return", value |-> PriceOf(text)]

\* C6 witness: _extract_price has returned the first number of a text
\* that holds a second number of another value after it.
C6_Witness ==
    /\ parsed # Idle
    /\ HasDigit(text)
    /\ \E p \in (IntEnd(text) + 2)..Len(text) :
           /\ IsDigit(text[p])
           /\ ~IsDigit(text[p - 1])
           /\ PriceOf(SubSeq(text, p, Len(text))) # PriceOf(text)
    /\ Len(findall(text, 1)) = 2
    /\ parsed.value = PriceOf(text)

----------------------------------------------------------------------------
(* Claims about _extract_prices, under Spec *)

IsPlus(pt) == pt # <<>> /\ pt[1] = "+"

\* C1 as stated: when the first fragment begins with "+", the fragment is
\* not passed over and the extraction ends in an OrderingError.  Stated for
\* a first fragment that holds a number: one that holds none makes
\* _extract_price raise before last is used (C7).
C1_OrderingError ==
    (/\ pc \in {"_extract_prices", "error"}
     /\ price_tags # <<>>
     /\ IsPlus(price_tags[1])
     /\ HasDigit(price_tags[1]))
        => /\ k = 1
           /\ pc = "error" => (err.kind = "raise" /\ err.type = "OrderingError")

\* the fragments start with a base price, each holds a number, and no two
\* "+" fragments are adjacent
Regular(tags) ==
    /\ tags # <<>>
    /\ ~IsPlus(tags[1])
    /\ \A j \in 1..Len(tags) : HasDigit(tags[j])
    /\ \A j \in 1..(Len(tags) - 1) : ~(IsPlus(tags[j]) /\ IsPlus(tags[j + 1]))

\* one Price per fragment without "+", in order, its shipping the value of
\* the "+" fragment that follows it directly, 0 when none does
Listing(tags) ==
    LET B == {j \in 1..Len(tags) : ~IsPlus(tags[j])}
    IN  [m \in 1..Cardinality(B) |->
            LET j == Nth(B, m)
            IN  [base_price |-> PriceOf(tags[j]),
                 shipping |-> IF j < Len(tags) /\ IsPlus(tags[j + 1])
                              THEN PriceOf(tags[j + 1]) ELSE 0]]

\* C5: for fragments that start with a base price, all hold a number and
\* have no two "+" fragments adjacent, _extract_prices raises nothing and
\* returns one Price per fragment without "+", in fragment order, with the
\* fragment's value as base price and the value of the directly following
\* "+" fragment, or 0, as shipping; that list becomes the Phone's.
C5_Listing ==
    Regular(price_tags) =>
        /\ pc = "error" => err = ConnectionError
        /\ (pc = "_extract_prices" /\ k > Len(price_tags)) =>
               prices = Listing(price_tags)
        /\ pc \in {"lookup_price", "write_prices", "done"} =>
               phones[Len(phones)].prices = Listing(price_tags)

\* C5 witness: _extract_prices is about to return two Prices, the first
\* with a shipping above 0 from the "+" fragment between the two.
C5_Witness ==
    /\ pc = "_extract_prices"
    /\ k > Len(price_tags)
    /\ Regular(price_tags)
    /\ Len(price_tags) = 3
    /\ IsPlus(price_tags[2])
    /\ Len(prices) = 2
    /\ prices[1].shipping > 0
    /\ prices[2].shipping = 0

C7_Step ==
    /\ pc # "error"
    /\ (/\ pc = "_extract_prices"
        /\ k <= Len(price_tags)
        /\ ~HasDigit(price_tags[k]))
           => /\ pc' = "error"
              /\ err' = [kind |-> "raise", type |-> "Exception",
                         msg |-> "no price found in", text |-> price_tags[k]]
              /\ phones' = phones
              /\ fetches' = fetches
              /\ out' = out

\* C7: when the loop of _extract_prices comes to a fragment without a
\* digit, its step ends the run in the exception of _extract_price that
\* names the fragment: no price list is returned, no Phone is added, and
\* nothing happens after the error.
C7_NoDigitRaises == [][C7_Step]_vars

\* C7 witness: the run has ended in the exception naming a fragment without
\* a digit, after a Price had been taken from an earlier fragment.
C7_Witness ==
    /\ pc = "error"
    /\ err.kind = "raise" /\ err.type = "Exception"
    /\ err.text = price_tags[k]
    /\ ~HasDigit(price_tags[k])
    /\ prices # <<>>

Extracting == pc = "_extract_prices" /\ pc' = "_extract_prices"

\* C10 as stated: during extraction no base price changes, and once
\* last.shipping has been assigned a further "+" fragment leaves it as it is.
C10_ShippingPatchedOnce ==
    [][Extracting =>
          /\ \A j \in 1..Len(prices) :
                 prices'[j].base_price = prices[j].base_price
          /\ (patched >= 1 /\ last' = last) =>
                 prices'[last].shipping = prices[last].shipping]_vars

\* C10 amended: during extraction no base price changes and only the Price
\* created last is modified; every "+" fragment assigns its value to that
\* Price's shipping, replacing what an earlier "+" fragment had set.
C10_ShippingOverwritten ==
    [][Extracting =>
          /\ \A j \in 1..Len(prices) :
                 /\ Len(prices') >= j
                 /\ prices'[j].base_price = prices[j].base_price
                 /\ j # last => prices'[j] = prices[j]
          /\ IF IsPlus(price_tags[k])
             THEN /\ Len(prices') = Len(prices)
                  /\ prices'[last].shipping = PriceOf(price_tags[k])
                  /\ patched' = patched + 1
             ELSE /\ Len(prices') = Len(prices) + 1
                  /\ last # 0 => prices'[last] = prices[last]
                  /\ patched' = 0]_vars

\* C10 witness: a second "+" fragment of another value has replaced the
\* shipping the first had set on the same Price.
C10_Witness ==
    /\ pc = "_extract_prices"
    /\ patched = 2
    /\ k = 4
    /\ PriceOf(price_tags[2]) # PriceOf(price_tags[3])
    /\ prices[last].shipping = PriceOf(price_tags[3])

----------------------------------------------------------------------------
(* Claims about the run of main(), under Spec *)

\* the data rows of `fields` fields each
RowsOf(fields) == {Row(fields, name) : name \in Names}

NameOf(row, fields) == CHOOSE name \in Names : row = Row(fields, name)

LookupErrors == {"ConnectionError", "Exception", "AttributeError"}

\* for a file of a header line and n >= 1 rows of `fields` fields each: the
\* run fails only in a lookup, goes on to write_prices once n lookups have
\* succeeded, and ends with n lines, the j-th for the j-th row
RunOf(fields) ==
    \A n \in 1..MaxRows : \A rows \in [1..n -> RowsOf(fields)] :
        file = FileOf(rows, <<>>) =>
            /\ pc = "error" => (err.kind = "raise" /\ err.type \in LookupErrors)
            /\ (pc # "read_infos" /\ pc # "error") => Len(infos) = n
            /\ Len(phones) = n => pc \in {"write_prices", "done"}
            /\ pc = "done" =>
                   /\ Len(out) = n
                   /\ \A j \in 1..n :
                          /\ out[j][1] = NameOf(rows[j], fields)
                          /\ out[j] = Line(phones[j], ",")
                          /\ phones[j].info.model_name = out[j][1]

\* C2 as stated: rows of exactly 10 comma-separated fields.
C2_TenFieldRows == RunOf(10)

\* C2 amended: for a file of one header line and n >= 1 rows of exactly 11
\* comma-separated fields each, with no newline after the last row, the run
\* raises nothing but what a lookup raises, and when every lookup succeeds
\* it ends with exactly n output lines, the j-th for the j-th row.
C2_ElevenFieldRows == RunOf(NumFields)

\* C2 witness: the run is done with two output lines for two rows of
\* different model names.
C2_Witness ==
    /\ pc = "done"
    /\ Len(out) = 2
    /\ out[1][1] # out[2][1]
    /\ \E rows \in [1..2 -> RowsOf(NumFields)] : file = FileOf(rows, <<>>)

C9_State ==
    /\ pc = "lookup_price" => (fetches = Len(phones) /\ i = fetches + 1)
    /\ pc = "_extract_prices" => (fetches = Len(phones) + 1 /\ i = fetches)
    /\ pc \in {"write_prices", "done"} =>
           /\ Len(phones) = Len(infos)
           /\ fetches = Len(infos)
    /\ out # <<>> => pc \in {"write_prices", "done"}
    /\ (pc = "error") <=> (err # NoError)
    /\ (pc = "error" /\ fetches > 0) =>
           /\ Len(phones) = fetches - 1
           /\ Len(phones) < Len(infos)

C9_Step ==
    /\ pc # "error"
    /\ fetches' # fetches =>
           /\ fetches' = fetches + 1
           /\ pc = "lookup_price"
           /\ Len(phones) = fetches
    /\ phones' # phones =>
           /\ pc = "_extract_prices" /\ k > Len(price_tags)
           /\ phones' = Append(phones, Phone(infos[i], prices))
    /\ out' # out => Len(phones) = Len(infos)

\* C9: a fetch starts only when every earlier phone has been fetched and
\* parsed, each phone is fetched at most once, writing starts only after
\* the last lookup, and once a fetch or a parse has failed nothing more
\* happens: no later fetch, no retry, no output line.
C9_SequentialFailFast == []C9_State /\ [][C9_Step]_vars

\* C9 witness: the second phone's lookup has failed after the first one's
\* had succeeded; no output has been written.
C9_Witness ==
    /\ pc = "error"
    /\ Len(phones) = 1
    /\ fetches = 2
    /\ Len(infos) = 2
    /\ out = <<>>

====
